---- MODULE Spec2Model ----
(***************************************************************************)
(* Folder-Explorer: the filesystem-tree service.                           *)
(*   src/unnamed/part_000        GET (read tree) and POST (create folder)  *)
(*   src/app/api/rename/route.ts PATCH (rename)                            *)
(*                                                                         *)
(* Text is a sequence of one-character strings ("/" separates segments,    *)
(* " " is whitespace).  The tokens "Documents", "Images", "root",          *)
(* "My Files" and "user-files" each stand for that whole word; none of     *)
(* them contains the letters x, y used for user-chosen names.              *)
(* A path under the root user-files directory is a sequence of names, the  *)
(* root itself is << >>.  The filesystem fs maps each existing path to     *)
(* "dir" or "file"; the root is absent from DOMAIN fs when missing.        *)
(* Node ids, sizes, timestamps and the order sortByLastUpdate gives the    *)
(* children (that code is not in the repository's files) are left out:     *)
(* children are a set of nodes.                                            *)
(***************************************************************************)
EXTENDS Integers, Sequences, FiniteSets, TLC

VARIABLES fs, last, pc, req, loc

vars == <<fs, last, pc, req, loc>>

\* ------------------------------------------------------------- bounds
\* The most entries below the root the filesystem holds.
MaxEntries == 3

\* ------------------------------------------------------------- text
Letters == {"x", "y"}

Documents == <<"Documents">>

Images == <<"Images">>

\* JSON values of a request body: a falsy non-string (undefined, null, 0),
\* a truthy non-string (42) or a string.
Undef == [t |-> "undefined", v |-> << >>]

Num == [t |-> "number", v |-> << >>]

Str(s) == [t |-> "string", v |-> s]

\* JavaScript truthiness: !v is false
Truthy(j) == j.t = "number" \/ (j.t = "string" /\ j.v # << >>)

IsString(j) == j.t = "string"

RECURSIVE TrimStart(_)
TrimStart(s) == IF s # << >> /\ Head(s) = " " THEN TrimStart(Tail(s)) ELSE s

RECURSIVE TrimEnd(_)
TrimEnd(s) ==
  IF s # << >> /\ s[Len(s)] = " " THEN TrimEnd(SubSeq(s, 1, Len(s) - 1)) ELSE s

\* String.prototype.trim
Trim(s) == TrimEnd(TrimStart(s))

\* s.split('/'): the segments between separators, empty ones included
RECURSIVE Split(_)
Split(s) ==
  IF \A i \in 1..Len(s) : s[i] # "/" THEN <<s>>
  ELSE LET i == CHOOSE k \in 1..Len(s) :
                  s[k] = "/" /\ \A j \in 1..(k - 1) : s[j] # "/"
       IN  <<SubSeq(s, 1, i - 1)>> \o Split(SubSeq(s, i + 1, Len(s)))

\* path normalisation: empty and "." segments vanish (no request of the
\* model holds a ".." segment)
RECURSIVE Normalize(_)
Normalize(segs) ==
  IF segs = << >> THEN << >>
  ELSE IF Head(segs) = << >> \/ Head(segs) = <<".">> THEN Normalize(Tail(segs))
  ELSE <<Head(segs)>> \o Normalize(Tail(segs))

RECURSIVE Flatten(_)
Flatten(parts) ==
  IF parts = << >> THEN << >> ELSE Split(Head(parts)) \o Flatten(Tail(parts))

\* path.join(userFilesDir, ...parts), as a path under userFilesDir
Join(parts) == Normalize(Flatten(parts))

\* path.dirname of a path below the root
Dirname(p) == SubSeq(p, 1, Len(p) - 1)

\* path.basename of a request string: its last non-empty segment
Basename(s) ==
  LET segs == SelectSeq(Split(s), LAMBDA g : g # << >>)
  IN  IF segs = << >> THEN << >> ELSE segs[Len(segs)]

Occurs(s, pat, i) ==
  i + Len(pat) - 1 <= Len(s) /\ SubSeq(s, i, i + Len(pat) - 1) = pat

\* String.prototype.replace(pattern: string, replacement): the FIRST
\* occurrence of pattern is replaced
Replace(s, pat, rep) ==
  IF \E i \in 1..Len(s) : Occurs(s, pat, i)
  THEN LET i == CHOOSE k \in 1..Len(s) :
                  Occurs(s, pat, k) /\ \A j \in 1..(k - 1) : ~Occurs(s, pat, j)
       IN  SubSeq(s, 1, i - 1) \o rep \o SubSeq(s, i + Len(pat), Len(s))
  ELSE s

\* the characters of /[<>:"/\\|?*]/
InvalidChars == {"<", ">", ":", "\"", "/", "\\", "|", "?", "*"}

HasInvalidChar(s) == \E i \in 1..Len(s) : s[i] \in InvalidChars

\* ------------------------------------------------------------- filesystem
Root == << >>

IsPrefix(p, q) == Len(p) <= Len(q) /\ SubSeq(q, 1, Len(p)) = p

IsDir(f, p) == p \in DOMAIN f /\ f[p] = "dir"

\* stat(p): the kind of the entry, or ENOENT (ENOTDIR, through a file, alike)
Stat(f, p) == IF p \in DOMAIN f THEN f[p] ELSE "ENOENT"

\* readdir(p): the names in directory p (p is a directory)
Readdir(f, p) == {q[Len(q)] : q \in {r \in DOMAIN f : Len(r) = Len(p) + 1 /\ IsPrefix(p, r)}}

Prefixes(p) == {SubSeq(p, 1, n) : n \in 0..Len(p)}

\* mkdir(p, {recursive: true}): missing segments are created; an existing
\* directory is no error; a file at p is EEXIST, a file above p is ENOTDIR
Mkdir(f, p) ==
  IF p \in DOMAIN f
  THEN IF f[p] = "dir" THEN [fs |-> f, err |-> "ok"] ELSE [fs |-> f, err |-> "EEXIST"]
  ELSE IF \E q \in Prefixes(p) : q \in DOMAIN f /\ f[q] = "file"
       THEN [fs |-> f, err |-> "ENOTDIR"]
       ELSE [fs |-> [q \in DOMAIN f \cup Prefixes(p) |->
                        IF q \in DOMAIN f THEN f[q] ELSE "dir"],
             err |-> "ok"]

Under(f, p) == {q \in DOMAIN f : IsPrefix(p, q)}

\* rename(2): a missing source is ENOENT; an existing destination is replaced
\* when both are files or when a directory moves onto an empty directory
Rename(f, old, new) ==
  IF old \notin DOMAIN f \/ Dirname(new) \notin DOMAIN f
    THEN [fs |-> f, err |-> "ENOENT"]
  ELSE IF old = new THEN [fs |-> f, err |-> "ok"]
  ELSE IF new \in DOMAIN f /\ f[old] = "dir" /\ f[new] = "file"
    THEN [fs |-> f, err |-> "ENOTDIR"]
  ELSE IF new \in DOMAIN f /\ f[old] = "file" /\ f[new] = "dir"
    THEN [fs |-> f, err |-> "EISDIR"]
  ELSE IF new \in DOMAIN f /\ f[new] = "dir" /\ Under(f, new) # {new}
    THEN [fs |-> f, err |-> "ENOTEMPTY"]
  ELSE LET moved == {new \o SubSeq(q, Len(old) + 1, Len(q)) : q \in Under(f, old)}
           kept  == (DOMAIN f \ Under(f, old)) \ {new}
       IN  [fs |-> [q \in kept \cup moved |->
                       IF q \in moved
                       THEN f[old \o SubSeq(q, Len(new) + 1, Len(q))]
                       ELSE f[q]],
            err |-> "ok"]

\* ------------------------------------------------------------- tree nodes
FolderNode(name, children) == [name |-> name, type |-> "folder", children |-> children]

FileNode(name) == [name |-> name, type |-> "file", children |-> {}]

\* ------------------------------------------------------------- handlers
\* initializeUserFilesDirectory without the emptiness test: a plausible slip
InitializeAlways(f) ==
  LET m == Mkdir(f, Root)
  IN  IF m.err # "ok" THEN f
      ELSE Mkdir(Mkdir(m.fs, <<Documents>>).fs, <<Images>>).fs

\* initializeUserFilesDirectory: every error is logged and swallowed
initializeUserFilesDirectory(f) ==
  LET m == Mkdir(f, Root)
  IN  IF m.err # "ok" THEN f
      ELSE IF Readdir(m.fs, Root) = {}
           THEN Mkdir(Mkdir(m.fs, <<Documents>>).fs, <<Images>>).fs
           ELSE m.fs

\* readDirectory with requests one at a time: nothing changes during the walk
RECURSIVE readDirectory(_, _)
readDirectory(f, dir) ==
  IF ~IsDir(f, dir) THEN {}
  ELSE {IF f[dir \o <<item>>] = "dir"
        THEN FolderNode(item, readDirectory(f, dir \o <<item>>))
        ELSE FileNode(item) : item \in Readdir(f, dir)}

Response(f, status, data) == [fs |-> f, status |-> status, data |-> data]

Error(msg) == [error |-> msg]

\* the status GET gives a target that stat reports as `kind`, with the
\* not-a-directory and not-found answers exchanged: a plausible slip
GetCheckSwapped(kind) ==
  IF kind = "ENOENT" THEN 400 ELSE IF kind # "dir" THEN 404 ELSE 200

\* GET lines 80-93: 404 when stat fails, 400 when not a directory
GetCheck(kind) ==
  IF kind = "ENOENT" THEN 404 ELSE IF kind # "dir" THEN 400 ELSE 200

\* GET lines 97-105: the synthetic root node
RootNode(requestedPath, children) ==
  LET parts == Split(requestedPath)
  IN  [id |-> IF requestedPath # << >> THEN requestedPath ELSE <<"root">>,
       name |-> IF requestedPath # << >>
                THEN (IF parts[Len(parts)] # << >> THEN parts[Len(parts)]
                      ELSE <<"user-files">>)
                ELSE <<"My Files">>,
       type |-> "folder", children |-> children]

\* GET: requestedPath is searchParams.get('path') || ''
GET(f, requestedPath) ==
  LET targetDir == Join(<<requestedPath>>)
      f1        == initializeUserFilesDirectory(f)
      status    == GetCheck(Stat(f1, targetDir))
  IN  IF status = 400 THEN Response(f1, 400, Error("Path is not a directory"))
      ELSE IF status = 404 THEN Response(f1, 404, Error("Directory not found"))
      ELSE Response(f1, 200, RootNode(requestedPath, readDirectory(f1, targetDir)))

\* POST with the pre-check left out: a plausible slip
PostNeverExists(f, targetDir) == FALSE

\* POST lines 140-150: the pre-check, stat succeeds and reports a directory
PostExists(f, targetDir) == Stat(f, targetDir) = "dir"

\* POST: body {folderPath, name}
POST(f, folderPath, name) ==
  IF ~Truthy(name) \/ ~IsString(name)
  THEN Response(f, 400, Error("Folder name is required"))
  ELSE
    LET f1 == initializeUserFilesDirectory(f)
    IN  IF Truthy(folderPath) /\ ~IsString(folderPath)
        THEN Response(f1, 500, Error("Failed to create folder"))
        ELSE
          LET targetDir == IF Truthy(folderPath)
                           THEN Join(<<folderPath.v, Trim(name.v)>>)
                           ELSE Join(<<Trim(name.v)>>)
              m == Mkdir(f1, targetDir)
          IN  IF PostExists(f1, targetDir)
              THEN Response(f1, 409, Error("Folder already exists"))
              ELSE IF m.err = "EEXIST"
              THEN Response(f1, 409, Error("Folder already exists"))
              ELSE IF m.err # "ok"
              THEN Response(f1, 500, Error("Failed to create folder"))
              ELSE Response(m.fs, 200, FolderNode(Trim(name.v), {}))

\* PATCH with the collision test left out: a plausible slip
PatchNeverCollides(f, fullNewPath) == FALSE

\* PATCH lines 50-58: an entry at the new path is a collision
PatchCollides(f, fullNewPath) == Stat(f, fullNewPath) # "ENOENT"

\* PATCH: body {oldPath, newName}
PATCH(f, oldPath, newName) ==
  IF ~Truthy(oldPath) \/ ~Truthy(newName) \/ ~IsString(oldPath) \/ ~IsString(newName)
  THEN Response(f, 400, Error("Old path and new name are required"))
  ELSE
    LET trimmedNewName == Trim(newName.v)
        fullOldPath    == Join(<<oldPath.v>>)
        parentDir      == Dirname(fullOldPath)
        fullNewPath    == parentDir \o Join(<<trimmedNewName>>)
        r              == Rename(f, fullOldPath, fullNewPath)
    IN  IF trimmedNewName = << >>
        THEN Response(f, 400, Error("New name cannot be empty"))
        ELSE IF HasInvalidChar(trimmedNewName)
        THEN Response(f, 400, Error("Name contains invalid characters"))
        ELSE IF Stat(f, fullOldPath) = "ENOENT"
        THEN Response(f, 404, Error("File or folder not found"))
        ELSE IF PatchCollides(f, fullNewPath)
        THEN Response(f, 409, Error("A file or folder with this name already exists"))
        ELSE IF r.err # "ok"
        THEN Response(f, 500, Error("Failed to rename item"))
        ELSE Response(r.fs, 200,
               [oldPath |-> oldPath.v,
                newPath |-> Replace(oldPath.v, Basename(oldPath.v), trimmedNewName),
                newName |-> trimmedNewName])

\* ------------------------------------------------------------- requests
Names == {<<c>> : c \in Letters}

\* the request strings "x", "y", "x/x", "x/y", ... of one or two segments
PathStrings == Names \cup {n \o <<"/">> \o m : n \in Names, m \in Names}

\* the paths of one or two names
Paths == {<<n>> : n \in Names} \cup {<<n, m>> : n \in Names, m \in Names}

GetPaths == {<< >>, <<".">>, Documents} \cup PathStrings

PostNames ==
  {Undef, Num, Str(<< >>), Str(<<" ">>), Str(<<".">>), Str(<<" ", "x", " ">>)}
    \cup {Str(n) : n \in Names}

PostFolderPaths == {Undef, Num} \cup {Str(s) : s \in Names}

PatchOldPaths == {Undef, Num} \cup {Str(s) : s \in PathStrings \cup {Documents}}

PatchNewNames ==
  {Undef, Str(<<" ">>), Str(<<".">>), Str(<<"*">>), Str(<<"x", "/", "y">>),
   Str(<<" ", "y", " ">>)} \cup {Str(n) : n \in Names}

\* a filesystem: the parent of every entry is a directory
WellFormed(f) ==
  \A q \in DOMAIN f : q # Root => (Dirname(q) \in DOMAIN f /\ f[Dirname(q)] = "dir")

\* the filesystems the service may find: no root, a file in the root's
\* place, or a root directory holding files and folders
InitialFilesystems ==
  {<< >>} \cup
  {f \in UNION {[S \cup {Root} -> {"dir", "file"}] :
                  S \in {T \in SUBSET Paths : Cardinality(T) <= MaxEntries}} :
     WellFormed(f)}

\* the filesystem stays within the bound
Fits(f) == Cardinality(DOMAIN f \ {Root}) <= MaxEntries

NoRequest == [method |-> "none", status |-> 0, data |-> Error("")]

Procs == {1, 2}

Idle == [p \in Procs |-> "idle"]

Init ==
  /\ fs \in InitialFilesystems
  /\ last = NoRequest
  /\ pc = Idle
  /\ req = [p \in Procs |-> NoRequest]
  /\ loc = [p \in Procs |-> NoRequest]

Served(method, body, r) ==
  /\ Fits(r.fs)
  /\ fs' = r.fs
  /\ last' = [method |-> method, body |-> body, status |-> r.status, data |-> r.data]
  /\ UNCHANGED <<pc, req, loc>>

Get == \E path \in GetPaths : Served("GET", [path |-> path], GET(fs, path))

Post ==
  \E folderPath \in PostFolderPaths, name \in PostNames :
    Served("POST", [folderPath |-> folderPath, name |-> name], POST(fs, folderPath, name))

Patch ==
  \E oldPath \in PatchOldPaths, newName \in PatchNewNames :
    Served("PATCH", [oldPath |-> oldPath, newName |-> newName], PATCH(fs, oldPath, newName))

\* requests executed one at a time
Next == Get \/ Post \/ Patch

Spec == Init /\ [][Next]_vars

\* the paths a request names
PostTarget(body) ==
  IF Truthy(body.folderPath) THEN Join(<<body.folderPath.v, Trim(body.name.v)>>)
  ELSE Join(<<Trim(body.name.v)>>)

OldSegs(body) == Normalize(Split(body.oldPath.v))

NewSegs(body) == Dirname(OldSegs(body)) \o Normalize(<<Trim(body.newName.v)>>)

\* ------------------------------------------------------------- concurrent requests
\* Each await of a handler is one step; what runs between two awaits runs
\* with it.  A process serves one request after another.
ConcRequests ==
  {[method |-> "GET", body |-> [path |-> s]] : s \in {<< >>, <<"x">>}}
    \cup {[method |-> "POST", body |-> [folderPath |-> Undef, name |-> n]] :
            n \in {Undef, Str(<<"x">>), Str(<<"y">>)}}
    \cup {[method |-> "PATCH", body |-> [oldPath |-> Str(o), newName |-> n]] :
            o \in Names, n \in {Str(<<"*">>)} \cup {Str(m) : m \in Names}}

ConcFilesystems == InitialFilesystems

NoLocals ==
  [status |-> 0, data |-> Error(""), stack |-> << >>, failed |-> {}, listed |-> {},
   checked |-> FALSE]

ConcInit ==
  /\ fs \in ConcFilesystems
  /\ last = NoRequest
  /\ pc = Idle
  /\ req = [p \in Procs |-> NoRequest]
  /\ loc = [p \in Procs |-> NoLocals]

Responded(l, status, data) == [l EXCEPT !.status = status, !.data = data, !.stack = << >>]

Frame(dir) == [dir |-> dir, listed |-> FALSE, todo |-> {}, nodes |-> {}, item |-> << >>]

Top(st) == st[Len(st)]

\* the top frame's readDirectory call returns value: its caller pushes the
\* folder node and goes on with its loop, or returns in turn (lines 36-62)
RECURSIVE Unwind(_, _)
Unwind(st, value) ==
  IF Len(st) = 1 THEN [stack |-> << >>, returned |-> TRUE, children |-> value]
  ELSE LET caller == st[Len(st) - 1]
           nodes  == caller.nodes \cup {FolderNode(caller.item, value)}
           rest   == SubSeq(st, 1, Len(st) - 2)
                       \o <<[caller EXCEPT !.nodes = nodes, !.item = << >>]>>
       IN  IF caller.todo = {} THEN Unwind(rest, nodes)
           ELSE [stack |-> rest, returned |-> FALSE, children |-> {}]

\* the walk goes on, or GET answers 200 with the synthetic root node (lines 95-110)
Walked(l, body, u) ==
  IF u.returned
  THEN Responded(l, 200, RootNode(body.path, u.children))
  ELSE [l EXCEPT !.stack = u.stack]

\* readDirectory without its try/catch: the error reaches GET's handler
WalkErrorPropagates(l, body) == Responded(l, 500, Error("Failed to read filesystem"))

\* readDirectory lines 63-66: an error in a directory's walk is caught and
\* that call returns the empty sequence
WalkError(l, body) ==
  Walked([l EXCEPT !.failed = @ \cup {Top(l.stack).dir}], body, Unwind(l.stack, {}))

Step(p, next, l) ==
  /\ pc' = [pc EXCEPT ![p] = IF l.status # 0 THEN "done" ELSE next]
  /\ loc' = [loc EXCEPT ![p] = l]
  /\ UNCHANGED <<last, req>>

\* a request arrives; its body is validated before the first filesystem call
Start(p) ==
  /\ pc[p] = "idle"
  /\ \E r \in ConcRequests :
       /\ req' = [req EXCEPT ![p] = r]
       /\ loc' = [loc EXCEPT ![p] =
            IF r.method = "POST" /\ (~Truthy(r.body.name) \/ ~IsString(r.body.name))
              THEN Responded(NoLocals, 400, Error("Folder name is required"))
            ELSE IF r.method = "PATCH" /\ HasInvalidChar(Trim(r.body.newName.v))
              THEN Responded(NoLocals, 400, Error("Name contains invalid characters"))
            ELSE NoLocals]
       /\ pc' = [pc EXCEPT ![p] =
            IF loc'[p].status # 0 THEN "done"
            ELSE IF r.method = "PATCH" THEN "stat_old" ELSE "init_mkdir"]
  /\ UNCHANGED <<fs, last>>

\* initializeUserFilesDirectory line 11
InitMkdir(p) ==
  /\ pc[p] = "init_mkdir"
  /\ LET m == Mkdir(fs, Root)
     IN  /\ Fits(m.fs)
         /\ fs' = m.fs
         /\ Step(p, IF m.err = "ok" THEN "init_readdir" ELSE "stat_target", loc[p])

\* initializeUserFilesDirectory lines 13-15
InitReaddir(p) ==
  /\ pc[p] = "init_readdir"
  /\ Step(p, IF IsDir(fs, Root) /\ Readdir(fs, Root) = {} THEN "init_documents"
             ELSE "stat_target", loc[p])
  /\ UNCHANGED fs

\* initializeUserFilesDirectory line 17
InitDocuments(p) ==
  /\ pc[p] = "init_documents"
  /\ LET m == Mkdir(fs, <<Documents>>)
     IN  /\ Fits(m.fs)
         /\ fs' = m.fs
         /\ Step(p, IF m.err = "ok" THEN "init_images" ELSE "stat_target", loc[p])

\* initializeUserFilesDirectory line 18
InitImages(p) ==
  /\ pc[p] = "init_images"
  /\ Fits(Mkdir(fs, <<Images>>).fs)
  /\ fs' = Mkdir(fs, <<Images>>).fs
  /\ Step(p, "stat_target", loc[p])

\* GET lines 80-95 and POST lines 140-150: the existence check
StatTarget(p) ==
  /\ pc[p] = "stat_target"
  /\ UNCHANGED fs
  /\ IF req[p].method = "GET"
     THEN LET target == Join(<<req[p].body.path>>)
              status == GetCheck(Stat(fs, target))
          IN  IF status = 400
                THEN Step(p, "done", Responded(loc[p], 400, Error("Path is not a directory")))
              ELSE IF status = 404
                THEN Step(p, "done", Responded(loc[p], 404, Error("Directory not found")))
              ELSE Step(p, "walk", [loc[p] EXCEPT !.checked = TRUE, !.stack = <<Frame(target)>>])
     ELSE IF PostExists(fs, PostTarget(req[p].body))
          THEN Step(p, "done", Responded(loc[p], 409, Error("Folder already exists")))
          ELSE Step(p, "mkdir", loc[p])

\* readDirectory line 27: the directory of the top frame is listed
WalkReaddir(p) ==
  /\ pc[p] = "walk" /\ ~Top(loc[p].stack).listed
  /\ UNCHANGED fs
  /\ LET l     == loc[p]
         top   == Top(l.stack)
         items == Readdir(fs, top.dir)
         l1    == IF Len(l.stack) = 1 THEN [l EXCEPT !.listed = items] ELSE l
     IN  IF ~IsDir(fs, top.dir) THEN Step(p, "walk", WalkError(l, req[p].body))
         ELSE IF items = {}
           THEN Step(p, "walk", Walked(l1, req[p].body, Unwind(l.stack, {})))
         ELSE Step(p, "walk",
                [l1 EXCEPT !.stack[Len(l.stack)] = [top EXCEPT !.listed = TRUE, !.todo = items]])

\* readDirectory lines 30-60: the next listed item is stat-ed
WalkStat(p) ==
  /\ pc[p] = "walk" /\ Top(loc[p].stack).listed
  /\ UNCHANGED fs
  /\ \E item \in Top(loc[p].stack).todo :
       LET l    == loc[p]
           top  == Top(l.stack)
           kind == Stat(fs, top.dir \o <<item>>)
           todo == top.todo \ {item}
           file == [top EXCEPT !.todo = todo, !.nodes = @ \cup {FileNode(item)}]
           st   == [l.stack EXCEPT ![Len(l.stack)] = file]
       IN  IF kind = "ENOENT" THEN Step(p, "walk", WalkError(l, req[p].body))
           ELSE IF kind = "dir"
             THEN Step(p, "walk",
                    [l EXCEPT !.stack = [l.stack EXCEPT ![Len(l.stack)] =
                                           [top EXCEPT !.todo = todo, !.item = item]]
                                        \o <<Frame(top.dir \o <<item>>)>>])
           ELSE IF todo = {}
             THEN Step(p, "walk", Walked(l, req[p].body, Unwind(st, file.nodes)))
           ELSE Step(p, "walk", [l EXCEPT !.stack = st])

\* POST lines 152-175: the create call
MkdirTarget(p) ==
  /\ pc[p] = "mkdir"
  /\ LET m == Mkdir(fs, PostTarget(req[p].body))
     IN  /\ Fits(m.fs)
         /\ fs' = m.fs
         /\ IF m.err = "ok"
              THEN Step(p, "done", Responded(loc[p], 200, FolderNode(Trim(req[p].body.name.v), {})))
            ELSE IF m.err = "EEXIST"
              THEN Step(p, "done", Responded(loc[p], 409, Error("Folder already exists")))
            ELSE Step(p, "done", Responded(loc[p], 500, Error("Failed to create folder")))

\* PATCH lines 38-45
StatOld(p) ==
  /\ pc[p] = "stat_old"
  /\ UNCHANGED fs
  /\ IF Stat(fs, OldSegs(req[p].body)) = "ENOENT"
     THEN Step(p, "done", Responded(loc[p], 404, Error("File or folder not found")))
     ELSE Step(p, "stat_new", loc[p])

\* PATCH lines 47-58
StatNew(p) ==
  /\ pc[p] = "stat_new"
  /\ UNCHANGED fs
  /\ IF PatchCollides(fs, NewSegs(req[p].body))
     THEN Step(p, "done",
            Responded(loc[p], 409, Error("A file or folder with this name already exists")))
     ELSE Step(p, "rename", loc[p])

\* PATCH lines 60-70
RenameCall(p) ==
  /\ pc[p] = "rename"
  /\ LET r == Rename(fs, OldSegs(req[p].body), NewSegs(req[p].body))
         b == req[p].body
     IN  /\ fs' = r.fs
         /\ IF r.err = "ok"
              THEN Step(p, "done",
                     Responded(loc[p], 200,
                       [oldPath |-> b.oldPath.v,
                        newPath |-> Replace(b.oldPath.v, Basename(b.oldPath.v), Trim(b.newName.v)),
                        newName |-> Trim(b.newName.v)]))
            ELSE Step(p, "done", Responded(loc[p], 500, Error("Failed to rename item")))

\* the response is sent; the process takes the next request
Respond(p) ==
  /\ pc[p] = "done"
  /\ pc' = [pc EXCEPT ![p] = "idle"]
  /\ loc' = [loc EXCEPT ![p] = NoLocals]
  /\ req' = [req EXCEPT ![p] = NoRequest]
  /\ UNCHANGED <<fs, last>>

ConcNext ==
  \E p \in Procs :
    \/ Start(p)
    \/ InitMkdir(p)
    \/ InitReaddir(p)
    \/ InitDocuments(p)
    \/ InitImages(p)
    \/ StatTarget(p)
    \/ WalkReaddir(p)
    \/ WalkStat(p)
    \/ MkdirTarget(p)
    \/ StatOld(p)
    \/ StatNew(p)
    \/ RenameCall(p)
    \/ Respond(p)

ConcSpec == ConcInit /\ [][ConcNext]_vars

\* ------------------------------------------------------------- claims, one request at a time
\* a name that is a string with something left after trimming
NameGiven(j) == IsString(j) /\ Trim(j.v) # << >>

FolderPathUsable(j) == ~Truthy(j) \/ IsString(j)

\* the entries below p, relative to p
Contents(f, p) == {[path |-> SubSeq(q, Len(p) + 1, Len(q)), kind |-> f[q]] : q \in Under(f, p)}

\* C1: a POST whose name is missing, not a string, empty or whitespace-only
\* responds 400 and creates nothing.
C1_InvalidNameRejected ==
  [][(last'.method = "POST" /\ ~NameGiven(last'.body.name))
       => (last'.status = 400 /\ fs' = fs)]_vars

PatchWellFormed(body) ==
  /\ Truthy(body.oldPath) /\ IsString(body.oldPath)
  /\ IsString(body.newName) /\ Trim(body.newName.v) # << >>
  /\ ~HasInvalidChar(Trim(body.newName.v))

\* C2: a rejected PATCH changes nothing: 400 on a forbidden character, 404 when
\* oldPath does not exist, 409 when an entry exists at the sibling path newName.
C2_RejectedRenameChangesNothing ==
  [][last'.method = "PATCH" =>
       LET b == last'.body
       IN  /\ (IsString(b.newName) /\ HasInvalidChar(Trim(b.newName.v)))
                => last'.status = 400
           /\ (PatchWellFormed(b) /\ OldSegs(b) \notin DOMAIN fs)
                => last'.status = 404
           /\ (PatchWellFormed(b) /\ OldSegs(b) \in DOMAIN fs /\ NewSegs(b) \in DOMAIN fs)
                => last'.status = 409
           /\ last'.status \in {400, 404, 409} => fs' = fs]_vars

\* a rename met an entry of another name at its new path and was refused
C2_Witness ==
  /\ last.method = "PATCH" /\ last.status = 409
  /\ OldSegs(last.body) # NewSegs(last.body)
  /\ {OldSegs(last.body), NewSegs(last.body)} \subseteq DOMAIN fs

\* C3: after a successful PATCH, newPath is oldPath with its final segment
\* replaced by the trimmed new name, every earlier segment unchanged.
C3_NewPathReplacesFinalSegment ==
  (last.method = "PATCH" /\ last.status = 200)
    => Split(last.data.newPath)
         = [Split(last.body.oldPath.v) EXCEPT ![Len(Split(last.body.oldPath.v))] = last.data.newName]

\* C4 as stated: a POST whose target exists as a directory responds 409 and
\* leaves that directory and its contents unchanged.
C4_ExistingFolderUntouched ==
  [][(/\ last'.method = "POST" /\ NameGiven(last'.body.name)
      /\ FolderPathUsable(last'.body.folderPath)
      /\ IsDir(fs, PostTarget(last'.body)))
       => /\ last'.status = 409
          /\ Contents(fs', PostTarget(last'.body)) = Contents(fs, PostTarget(last'.body))]_vars

\* C4 amended: the same for a target strictly below the root; a target that
\* is the root itself gets 409 too, and gains at most the default folders.
C4_ExistingFolderBelowRootUntouched ==
  [][(/\ last'.method = "POST" /\ NameGiven(last'.body.name)
      /\ FolderPathUsable(last'.body.folderPath)
      /\ IsDir(fs, PostTarget(last'.body)))
       => /\ last'.status = 409
          /\ PostTarget(last'.body) # Root
               => Contents(fs', PostTarget(last'.body)) = Contents(fs, PostTarget(last'.body))
          /\ PostTarget(last'.body) = Root
               => /\ \A q \in DOMAIN fs : q \in DOMAIN fs' /\ fs'[q] = fs[q]
                  /\ DOMAIN fs' \ DOMAIN fs \subseteq {<<Documents>>, <<Images>>}
                  /\ (Readdir(fs, Root) # {} => fs' = fs)]_vars

\* a create was refused for a folder below the root that holds something
C4_Witness ==
  /\ last.method = "POST" /\ last.status = 409 /\ NameGiven(last.body.name)
  /\ PostTarget(last.body) # Root
  /\ Under(fs, PostTarget(last.body)) # {PostTarget(last.body)}

GetTarget(body) == Normalize(Split(body.path))

\* C5: a GET responds 404 when the path does not exist, 400 when it is not a
\* directory, and 200 with a root FolderNode only when it is a directory.
C5_GetStatus ==
  last.method = "GET" =>
    /\ last.status = 404 <=> GetTarget(last.body) \notin DOMAIN fs
    /\ last.status = 400 <=> (GetTarget(last.body) \in DOMAIN fs /\ fs[GetTarget(last.body)] # "dir")
    /\ last.status = 200 <=> (GetTarget(last.body) \in DOMAIN fs /\ fs[GetTarget(last.body)] = "dir")
    /\ last.status = 200
         => (last.data.type = "folder"
             /\ last.data.children = readDirectory(fs, GetTarget(last.body)))

\* a GET of a file
C5_Witness ==
  /\ last.method = "GET" /\ last.status = 400
  /\ GetTarget(last.body) \in DOMAIN fs /\ fs[GetTarget(last.body)] = "file"

DefaultFolders == {FolderNode(Documents, {}), FolderNode(Images, {})}

RootIsEmptyOrMissing(f) == Root \notin DOMAIN f \/ (f[Root] = "dir" /\ Readdir(f, Root) = {})

\* C6: initialization run by a GET or POST on a missing or empty root leaves
\* exactly the empty folders Documents and Images in it (a GET of the root
\* returns exactly those two); on a root with an entry it creates nothing.
C6_InitializationSeedsOnce ==
  [][/\ (last'.method = "GET" /\ RootIsEmptyOrMissing(fs))
          => /\ readDirectory(fs', Root) = DefaultFolders
             /\ GetTarget(last'.body) = Root
                  => (last'.status = 200 /\ last'.data.children = DefaultFolders)
     /\ (last'.method = "POST" /\ last'.status # 400 /\ RootIsEmptyOrMissing(fs))
          => DefaultFolders \subseteq readDirectory(fs', Root)
     /\ (last'.method = "GET" /\ ~RootIsEmptyOrMissing(fs)) => fs' = fs
     /\ (last'.method = "POST" /\ ~RootIsEmptyOrMissing(fs))
          => (DOMAIN fs' \ DOMAIN fs) \cap {<<Documents>>, <<Images>>} = {}]_vars

\* a GET of the root returned exactly the two default folders
C6_Witness ==
  /\ last.method = "GET" /\ last.status = 200 /\ GetTarget(last.body) = Root
  /\ last.data.children = DefaultFolders

ParentString(body) == IF Truthy(body.folderPath) THEN body.folderPath.v ELSE << >>

Child(nodes, name) == {n \in nodes : n.name = name}

\* C7: after a POST of name n (other than the path expression ".") responds
\* 200, a GET of the parent lists a folder n with empty children; after a PATCH of n to m responds 200, a GET of the
\* parent lists m with the former contents of n, no n, and the rest unchanged.
C7_CreateThenRenameVisible ==
  [][/\ (last'.method = "POST" /\ last'.status = 200 /\ Trim(last'.body.name.v) # <<".">>)
          => LET g == GET(fs', ParentString(last'.body))
             IN  g.status = 200 /\ FolderNode(Trim(last'.body.name.v), {}) \in g.data.children
     /\ (last'.method = "PATCH" /\ last'.status = 200)
          => LET parent == Dirname(OldSegs(last'.body))
                 n      == OldSegs(last'.body)[Len(OldSegs(last'.body))]
                 m      == Trim(last'.body.newName.v)
                 before == readDirectory(fs, parent)
                 after  == readDirectory(fs', parent)
             IN  /\ Child(after, n) = {}
                 /\ Child(after, m) = {[e EXCEPT !.name = m] : e \in Child(before, n)}
                 /\ Child(after, m) # {}
                 /\ {e \in after : e.name # m} = {e \in before : e.name # n}]_vars

\* ------------------------------------------------------------- claims, concurrent requests
\* C8: of two POSTs of one target whose pre-checks both ran before either
\* create call, the one whose create call runs second responds 409.
C8_SecondCreateRejected ==
  [][\A p \in Procs, q \in Procs :
       (/\ p # q
        /\ req[p].method = "POST" /\ req[q].method = "POST"
        /\ pc[p] = "mkdir" /\ pc'[p] = "done"
        /\ pc[q] = "done" /\ loc[q].status = 200
        /\ PostTarget(req[p].body) = PostTarget(req[q].body)
        /\ IsDir(fs, PostTarget(req[p].body)))
         => loc'[p].status = 409]_vars

\* C9: a rename that responds 200 never replaces an entry that existed at
\* its new path when the rename call ran, and no entry is lost.
C9_RenameNeverOverwrites ==
  [][\A p \in Procs :
       (pc[p] = "rename" /\ pc'[p] = "done" /\ loc'[p].status = 200)
         => /\ NewSegs(req[p].body) \notin DOMAIN fs
            /\ Cardinality(DOMAIN fs') = Cardinality(DOMAIN fs)]_vars

RECURSIVE ChildrenAt(_, _)
\* the children the returned tree gives the directory at relative path rel
\* (a set: empty when the tree has no such folder)
ChildrenAt(children, rel) ==
  IF rel = << >> THEN {children}
  ELSE UNION {ChildrenAt(n.children, Tail(rel)) :
                n \in {m \in children : m.name = Head(rel) /\ m.type = "folder"}}

Relative(target, dir) == SubSeq(dir, Len(target) + 1, Len(dir))

\* C10: a GET that passed its check responds 200 whatever renames run beside
\* it; a directory whose listing or entry stat failed is returned with empty
\* children, and when the target's own walk did not fail every entry it
\* listed is returned.
C10_WalkDegrades ==
  \A p \in Procs :
    (req[p].method = "GET" /\ loc[p].checked /\ pc[p] = "done")
      => /\ loc[p].status = 200
         /\ \A d \in loc[p].failed :
              ChildrenAt(loc[p].data.children, Relative(GetTarget(req[p].body), d)) \subseteq {{}}
         /\ GetTarget(req[p].body) \notin loc[p].failed
              => {n.name : n \in loc[p].data.children} = loc[p].listed

\* a GET answered 200 with a subdirectory whose walk failed returned empty
\* beside an entry that was walked
C10_Witness ==
  \E p \in Procs :
    /\ req[p].method = "GET" /\ pc[p] = "done" /\ loc[p].status = 200
    /\ GetTarget(req[p].body) \notin loc[p].failed
    /\ loc[p].failed # {}
    /\ Cardinality(loc[p].data.children) >= 2

====
